---- MODULE Spec2Model ----
(***************************************************************************)
(* A model of the JSRO client: the Connection (connection.js), its         *)
(* RequestQueue (requestQueue.js), its Poller (poller.js) and the          *)
(* RemoteObject proxies (remoteObject.js), together with the environment   *)
(* they run in: the application calling the public API, the transport      *)
(* completing or failing requests, the poll timer and the server.          *)
(*                                                                         *)
(* JavaScript runs one handler at a time, to completion.  Every action     *)
(* below is one such handler with every call it makes.  A handler is       *)
(* written as a function from a state record to a state record, so that    *)
(* the nested calls of the code (disconnect -> onLoss -> onDestroy ->       *)
(* destroy -> sendRequest -> sendQueuedRequests) compose as they do there.  *)
(* Callbacks registered with .then on a deferred of the RequestQueue run    *)
(* in a later handler (Continuation).                                       *)
(***************************************************************************)
EXTENDS Integers, Sequences, FiniteSets, TLC

\* ---------------------------------------------------------------- bounds
\* requests the application and the library may enqueue
MaxRequests == 3
\* poll GETs the Poller may issue
MaxPolls == 3
\* messages the server may produce
MaxMsgs == 3
\* messages in one poll response
MaxResp == 2
\* instance ids the server hands out are 1..MaxInstances
MaxInstances == 1
\* poll GETs the Poller may issue where progress of the send pipeline is checked
MaxLivePolls == 2

InstanceIDs == 1..MaxInstances
\* the payload the server gives the result of request r, and its error for it:
\* a different one for every request
ResultOf(r) == 10 + r
ErrorOf(r) == 20 + r
\* what a failed transport request rejects with
TransportErrors == {30}
\* the rejection of onDestroy, 'remote object destroyed'
RemoteObjectDestroyed == -1
\* the throw of registerRemoteObject, 'assigned instance ID already in use'
InstanceIDInUse == -2

VARIABLES
    connected,      \* Connection: var connected
    nextRequestID,  \* RequestQueue: var nextRequestID
    requestQueue,   \* RequestQueue: var requestQueue (request ids, in order)
    rqDeferred,     \* RequestQueue: the keys of var deferredResults
    reqs,           \* every request added, by id + 1, with the future its caller holds
    conts,          \* settled RequestQueue deferreds whose .then callbacks have not run
    pendingRequest, \* Connection: var pendingRequest (0: undefined, else the POST's place in posts)
    sendReqs,       \* the POSTs the transport has still to complete, aborted or not
    instances,      \* Connection: var instances (instance id -> proxy, 0: none)
    proxies,        \* the RemoteObjects registered so far
    evLog,          \* the events the Connection's trigger fired
    thrown,         \* errors thrown out of a transport or timer handler
    posts,          \* the bodies of the POSTs handed to context.request, in order
    gets,           \* the last-seen id of each poll GET handed to context.request, by poll id
    deletes,        \* the number of DELETEs handed to context.request
    stopped,        \* Poller: var stopped
    curPollID,      \* Poller: var curPollID
    latestID,       \* Poller: var latestID
    pollPending,    \* Poller: var pendingRequest (0: undefined, else its poll id)
    timeoutArmed,   \* Poller: the timer of timeoutToken is scheduled
    pollReqs,       \* the poll GETs the transport has still to complete, aborted or not
    srvMsgs,        \* the messages the server produced; the id of a message is its place - 1
    delivered       \* the ids of the messages the Poller passed to onPoll, in order

vars == <<connected, nextRequestID, requestQueue, rqDeferred, reqs, conts,
          pendingRequest, sendReqs, instances, proxies, evLog, thrown, posts, gets, deletes,
          stopped, curPollID, latestID, pollPending, timeoutArmed, pollReqs,
          srvMsgs, delivered>>

\* ------------------------------------------------------- state as a record
\* exc: the error the running call has thrown ("" when none)
Cur ==
    [connected |-> connected, nextRequestID |-> nextRequestID,
     requestQueue |-> requestQueue, rqDeferred |-> rqDeferred, reqs |-> reqs,
     conts |-> conts, pendingRequest |-> pendingRequest, sendReqs |-> sendReqs,
     instances |-> instances, proxies |-> proxies, evLog |-> evLog,
     thrown |-> thrown, posts |-> posts, gets |-> gets, deletes |-> deletes,
     stopped |-> stopped,
     curPollID |-> curPollID, latestID |-> latestID, pollPending |-> pollPending,
     timeoutArmed |-> timeoutArmed, pollReqs |-> pollReqs, srvMsgs |-> srvMsgs,
     delivered |-> delivered, exc |-> ""]

WithinBounds(s) ==
    /\ s.nextRequestID <= MaxRequests
    /\ s.curPollID <= MaxPolls
    /\ Len(s.srvMsgs) <= MaxMsgs

Commit(s) ==
    /\ WithinBounds(s)
    /\ connected' = s.connected
    /\ nextRequestID' = s.nextRequestID
    /\ requestQueue' = s.requestQueue
    /\ rqDeferred' = s.rqDeferred
    /\ reqs' = s.reqs
    /\ conts' = s.conts
    /\ pendingRequest' = s.pendingRequest
    /\ sendReqs' = s.sendReqs
    /\ instances' = s.instances
    /\ proxies' = s.proxies
    /\ evLog' = s.evLog
    /\ thrown' = s.thrown
    /\ posts' = s.posts
    /\ gets' = s.gets
    /\ deletes' = s.deletes
    /\ stopped' = s.stopped
    /\ curPollID' = s.curPollID
    /\ latestID' = s.latestID
    /\ pollPending' = s.pollPending
    /\ timeoutArmed' = s.timeoutArmed
    /\ pollReqs' = s.pollReqs
    /\ srvMsgs' = s.srvMsgs
    /\ delivered' = s.delivered

\* an error that leaves a transport or timer handler is nobody's to catch
Uncaught(s) ==
    IF s.exc = "" THEN s ELSE [s EXCEPT !.thrown = @ \cup {s.exc}, !.exc = ""]

\* ------------------------------------------------------- Transport Context
\* the transport completes request r: its handle is no longer in flight
Complete(rs, r) ==
    rs \ {r}

\* context.request(method, url, data): the request is issued
request(s, method, data) ==
    IF method = "POST" THEN [s EXCEPT !.posts = Append(@, data)]
    ELSE IF method = "GET" THEN [s EXCEPT !.gets = Append(@, data)]
    ELSE [s EXCEPT !.deletes = @ + 1]

\* deferred.resolve / deferred.reject: a settled promise stays as it is
settle(f, st, val) ==
    IF f.st = "pending" THEN [f EXCEPT !.st = st, !.val = val, !.n = @ + 1]
    ELSE [f EXCEPT !.n = @ + 1]

\* trigger.fire of the Connection
fire(s, ev, err) ==
    [s EXCEPT !.evLog = Append(@, [e |-> ev, err |-> err])]

\* ------------------------------------------------------------ RequestQueue
\* (mutant) the request goes to the head of the queue
addFirst(s, req) ==
    [s EXCEPT !.nextRequestID = @ + 1,
              !.rqDeferred = @ \cup {s.nextRequestID},
              !.reqs = Append(@, req),
              !.requestQueue = <<s.nextRequestID>> \o @]

add(s, req) ==
    [s EXCEPT !.nextRequestID = @ + 1,
              !.rqDeferred = @ \cup {s.nextRequestID},
              !.reqs = Append(@, req),
              !.requestQueue = Append(@, s.nextRequestID)]

drain(s) ==
    [s EXCEPT !.requestQueue = <<>>]

\* (mutant) results are matched to the pending requests of their kind in the
\* order these were added, not by their id
handleResultInOrder(s, m) ==
    LET kind == IF m.rid \in 0..(Len(s.reqs) - 1) THEN s.reqs[m.rid + 1].action ELSE ""
        same == {x \in s.rqDeferred : s.reqs[x + 1].action = kind}
    IN  IF same # {}
        THEN LET r == CHOOSE x \in same : \A y \in same : x <= y
             IN  [s EXCEPT !.rqDeferred = @ \ {r},
                           !.conts = @ \cup {[rid |-> r,
                                              rejected |-> m.err # 0,
                                              val |-> IF m.err # 0 THEN m.err ELSE m.val]}]
        ELSE s

\* (mutant) a result settles whether or not a deferred waits for its id
handleResultAlways(s, m) ==
    [s EXCEPT !.rqDeferred = @ \ {m.rid},
              !.conts = @ \cup {[rid |-> m.rid,
                                 rejected |-> m.err # 0,
                                 val |-> IF m.err # 0 THEN m.err ELSE m.val]}]

handleResult(s, m) ==
    IF m.rid \in s.rqDeferred
    THEN [s EXCEPT !.rqDeferred = @ \ {m.rid},
                   !.conts = @ \cup {[rid |-> m.rid,
                                      rejected |-> m.err # 0,
                                      val |-> IF m.err # 0 THEN m.err ELSE m.val]}]
    ELSE s

\* ------------------------------------------------- Connection: send pipeline
\* (mutant) a flush does not look at pendingRequest
sendQueuedRequestsAnyway(s) ==
    LET requestsToSend == s.requestQueue
        s1 == drain(s)
    IN  IF Len(requestsToSend) > 0
        THEN LET s2 == request(s1, "POST", requestsToSend)
                 h == Len(s2.posts)
             IN  [s2 EXCEPT !.pendingRequest = h,
                            !.sendReqs = @ \cup {[id |-> h, aborted |-> FALSE]}]
        ELSE s1

sendQueuedRequests(s) ==
    IF s.pendingRequest # 0 THEN s
    ELSE LET requestsToSend == s.requestQueue
             s1 == drain(s)
         IN  IF Len(requestsToSend) > 0
             THEN LET s2 == request(s1, "POST", requestsToSend)
                      h == Len(s2.posts)
                  IN  [s2 EXCEPT !.pendingRequest = h,
                                 !.sendReqs = @ \cup {[id |-> h, aborted |-> FALSE]}]
             ELSE s1

sendRequest(s, req) ==
    sendQueuedRequests(add(s, req))

destroy(s, p) ==
    sendRequest(s, [action |-> "destroy", p |-> p, k |-> 0, st |-> "none", val |-> 0, n |-> 0])

\* ------------------------------------------- Connection: registerRemoteObject
\* invoke(method, args) of a registered remote object
invoke(s, p) ==
    IF s.proxies[p].cDestroyed
    THEN [s EXCEPT !.exc = "remote object already destroyed"]
    ELSE LET resultID == s.proxies[p].nextResultID
             s1 == [s EXCEPT !.proxies[p].nextResultID = @ + 1,
                             !.proxies[p].deferredResults = @ \cup {resultID}]
         IN  sendRequest(s1, [action |-> "invoke", p |-> p, k |-> resultID,
                              st |-> "pending", val |-> 0, n |-> 0])

\* the invocation futures a remote object's deferredResults holds
HeldBy(s, p) ==
    {i \in 1..Len(s.reqs) :
        /\ s.reqs[i].action = "invoke"
        /\ s.reqs[i].p = p
        /\ s.reqs[i].k \in s.proxies[p].deferredResults}

\* (mutant) the pending invocation results are dropped, not rejected
onDestroyDropsPending(s, p) ==
    destroy([s EXCEPT !.proxies[p].cDestroyed = TRUE,
                      !.proxies[p].deferredResults = {}], p)

onDestroy(s, p) ==
    LET held == HeldBy(s, p)
        s1 == [s EXCEPT !.proxies[p].cDestroyed = TRUE,
                        !.proxies[p].deferredResults = {},
                        !.reqs = [i \in 1..Len(s.reqs) |->
                                    IF i \in held
                                    THEN settle(s.reqs[i], "rejected", RemoteObjectDestroyed)
                                    ELSE s.reqs[i]]]
    IN  destroy(s1, p)

registerRemoteObject(s, rid, instanceID) ==
    IF s.instances[instanceID] # 0
    THEN [s EXCEPT !.reqs[rid + 1] = settle(@, "rejected", InstanceIDInUse)]
    ELSE LET ro == [iid |-> instanceID, rDestroyed |-> FALSE, cDestroyed |-> FALSE,
                    nextResultID |-> 0, deferredResults |-> {},
                    events |-> <<>>, lisOut |-> {}]
             p == Len(s.proxies) + 1
         IN  [s EXCEPT !.proxies = Append(@, ro),
                       !.instances[instanceID] = p,
                       !.reqs[rid + 1] = settle(@, "resolved", p)]

\* ------------------------------------------------------------ RemoteObject
\* trigger.fire of a remote object.  lis: the application has a listener for
\* the event that calls a method of the object and catches what it throws.
proxyFire(s, p, ev, lis) ==
    LET s1 == [s EXCEPT !.proxies[p].events = Append(@, ev)]
        r == invoke(s1, p)
    IN  IF ~lis THEN s1
        ELSE IF r.exc # ""
             THEN [s1 EXCEPT !.proxies[p].lisOut = @ \cup {[ev |-> ev, ok |-> FALSE]}]
             ELSE [r EXCEPT !.proxies[p].lisOut = @ \cup {[ev |-> ev, ok |-> TRUE]}]

\* (mutant) destroy() does not look at destroyed
roDestroyAgain(s, p, lis) ==
    LET s1 == [s EXCEPT !.proxies[p].rDestroyed = TRUE]
        s2 == onDestroy(s1, p)
    IN  proxyFire(s2, p, "destroy", lis)

roDestroy(s, p, lis) ==
    IF s.proxies[p].rDestroyed
    THEN [s EXCEPT !.exc = "already destroyed"]
    ELSE LET s1 == [s EXCEPT !.proxies[p].rDestroyed = TRUE]
             s2 == onDestroy(s1, p)
         IN  proxyFire(s2, p, "destroy", lis)

ctlOnLoss(s, p, lis) ==
    LET s1 == [s EXCEPT !.proxies[p].rDestroyed = TRUE]
        s2 == proxyFire(s1, p, "loss", lis)
        s3 == onDestroy(s2, p)
    IN  proxyFire(s3, p, "destroy", lis)

\* ------------------------------------------------------------------ Poller
\* (mutant) poll() does not look at stopped
pollAnyway(s) ==
    LET thisPollID == s.curPollID + 1
        s1 == request(s, "GET", s.latestID)
    IN  [s1 EXCEPT !.curPollID = thisPollID,
                   !.pollPending = thisPollID,
                   !.pollReqs = @ \cup {[id |-> thisPollID, aborted |-> FALSE]},
                   !.timeoutArmed = TRUE]

poll(s) ==
    IF s.stopped THEN s
    ELSE LET thisPollID == s.curPollID + 1
             s1 == request(s, "GET", s.latestID)
         IN  [s1 EXCEPT !.curPollID = thisPollID,
                        !.pollPending = thisPollID,
                        !.pollReqs = @ \cup {[id |-> thisPollID, aborted |-> FALSE]},
                        !.timeoutArmed = TRUE]

abortPoll(s) ==
    [s EXCEPT !.pollReqs = {IF g.id = s.pollPending THEN [g EXCEPT !.aborted = TRUE] ELSE g :
                              g \in @}]

stop(s) ==
    LET s1 == [s EXCEPT !.stopped = TRUE]
    IN  IF s1.pollPending # 0
        THEN [abortPoll(s1) EXCEPT !.timeoutArmed = FALSE, !.pollPending = 0]
        ELSE s1

\* ------------------------------------------------- Connection: teardown
abortSend(s) ==
    [s EXCEPT !.sendReqs = {IF h.id = s.pendingRequest THEN [h EXCEPT !.aborted = TRUE] ELSE h :
                              h \in @}]

\* instanceIDs.forEach(... instances[instanceID].onLoss() ...), ids ascending
RECURSIVE lossFrom(_, _, _)
lossFrom(s, i, lis) ==
    IF i > MaxInstances THEN s
    ELSE lossFrom(IF s.instances[i] # 0 THEN ctlOnLoss(s, s.instances[i], lis) ELSE s,
                  i + 1, lis)

\* (mutant) disconnect() does not look at connected
disconnectUnguarded(s, lis) ==
    LET s1 == fire([s EXCEPT !.connected = FALSE], "disconnect", 0)
        s2 == lossFrom(s1, 1, lis)
        s3 == [s2 EXCEPT !.instances = [i \in InstanceIDs |-> 0]]
        s4 == IF s3.pendingRequest # 0 THEN abortSend(s3) ELSE s3
        s5 == stop(s4)
    IN  request(s5, "DELETE", 0)

\* (mutant) disconnect() also rejects the futures of the creates that wait
\* in the RequestQueue
disconnectRejectsQueued(s, lis) ==
    IF ~s.connected
    THEN [s EXCEPT !.exc = "already disconnected"]
    ELSE LET s1 == fire([s EXCEPT !.connected = FALSE], "disconnect", 0)
             s2 == lossFrom(s1, 1, lis)
             s3 == [s2 EXCEPT !.instances = [i \in InstanceIDs |-> 0]]
             s4 == IF s3.pendingRequest # 0 THEN abortSend(s3) ELSE s3
             s5 == stop(s4)
             s6 == request(s5, "DELETE", 0)
             waits == {i \in 1..Len(s6.reqs) :
                          s6.reqs[i].action = "create" /\ (i - 1) \in s6.rqDeferred}
         IN  [s6 EXCEPT !.rqDeferred = @ \ {i - 1 : i \in waits},
                        !.reqs = [i \in 1..Len(s6.reqs) |->
                                    IF i \in waits
                                    THEN settle(s6.reqs[i], "rejected", 0)
                                    ELSE s6.reqs[i]]]

disconnect(s, lis) ==
    IF ~s.connected
    THEN [s EXCEPT !.exc = "already disconnected"]
    ELSE LET s1 == fire([s EXCEPT !.connected = FALSE], "disconnect", 0)
             s2 == lossFrom(s1, 1, lis)
             s3 == [s2 EXCEPT !.instances = [i \in InstanceIDs |-> 0]]
             s4 == IF s3.pendingRequest # 0 THEN abortSend(s3) ELSE s3
             s5 == stop(s4)
         IN  request(s5, "DELETE", 0)

onLoss(s, error, lis) ==
    disconnect(fire(s, "loss", error), lis)

\* ------------------------------------------------------ Connection: onPoll
\* evl: the application has a listener for the server's event that calls
\* disconnect() and catches what it throws.
onMessage(s, m, evl, lis) ==
    IF m.t = "res" THEN handleResult(s, m)
    ELSE LET p == s.instances[m.val]
         IN  IF p = 0 THEN s
             ELSE LET s1 == [s EXCEPT !.proxies[p].events = Append(@, "event")]
                  IN  IF evl THEN [disconnect(s1, lis) EXCEPT !.exc = ""] ELSE s1

RECURSIVE onPoll(_, _, _, _)
onPoll(s, messages, evl, lis) ==
    IF messages = <<>> THEN s
    ELSE onPoll(onMessage(s, Head(messages), evl, lis), Tail(messages), evl, lis)

\* ------------------------------------------- the handlers the transport runs
\* (mutant) a completed POST is not followed by a flush
sendSuccessNoFlush(s) ==
    [s EXCEPT !.pendingRequest = 0]

\* pendingRequest.then(function() {...}) of sendQueuedRequests
sendSuccess(s) ==
    sendQueuedRequests([s EXCEPT !.pendingRequest = 0])

\* (mutant) a failed batch goes back to the head of the queue and is sent again
sendFailureRetry(s, error, lis) ==
    sendQueuedRequests([s EXCEPT !.requestQueue = s.posts[Len(s.posts)] \o @,
                                 !.pendingRequest = 0])

\* pendingRequest.then(..., function(error) {...}) of sendQueuedRequests
sendFailure(s, error, lis) ==
    onLoss([s EXCEPT !.pendingRequest = 0], error, lis)

\* the messages of a poll response: ids as the server sent them
Messages(s, resp) ==
    [i \in 1..Len(resp) |-> [id |-> resp[i], message |-> s.srvMsgs[resp[i] + 1]]]

\* messages.filter(function(message) { return message.id > latestID; })
filterNew(s, messages) ==
    LET isNew(m) == m.id > s.latestID
    IN  SelectSeq(messages, isNew)

\* (mutant) the response of a poll is handled whatever its poll id
pollSuccessAnyPoll(s, thisPollID, resp, evl, lis) ==
    LET s1 == [s EXCEPT !.pollPending = 0, !.timeoutArmed = FALSE]
        messages == filterNew(s1, Messages(s1, resp))
        s2 == IF Len(messages) > 0
              THEN onPoll([s1 EXCEPT !.latestID = messages[Len(messages)].id,
                                     !.delivered = @ \o [i \in 1..Len(messages) |-> messages[i].id]],
                          [i \in 1..Len(messages) |-> messages[i].message], evl, lis)
              ELSE s1
    IN  IF s1.stopped THEN s1 ELSE poll(s2)

\* pendingRequest.then(function(messages) {...}) of poll
pollSuccess(s, thisPollID, resp, evl, lis) ==
    IF thisPollID # s.curPollID THEN s
    ELSE LET s1 == [s EXCEPT !.pollPending = 0, !.timeoutArmed = FALSE]
             messages == filterNew(s1, Messages(s1, resp))
             s2 == IF Len(messages) > 0
                   THEN onPoll([s1 EXCEPT !.latestID = messages[Len(messages)].id,
                                          !.delivered = @ \o [i \in 1..Len(messages) |-> messages[i].id]],
                               [i \in 1..Len(messages) |-> messages[i].message], evl, lis)
                   ELSE s1
         IN  IF s1.stopped THEN s1 ELSE poll(s2)

\* (mutant) a failed poll is taken for a timeout: the Poller polls again
pollFailureRepoll(s, thisPollID, error, lis) ==
    IF thisPollID # s.curPollID THEN s
    ELSE poll([s EXCEPT !.pollPending = 0, !.timeoutArmed = FALSE])

\* pendingRequest.then(..., function(error) {...}) of poll
pollFailure(s, thisPollID, error, lis) ==
    IF thisPollID # s.curPollID THEN s
    ELSE LET s1 == [s EXCEPT !.pollPending = 0, !.timeoutArmed = FALSE]
         IN  IF ~s1.stopped THEN onLoss(s1, error, lis) ELSE s1

\* (mutant) the watchdog aborts the GET and does not poll again
onTimeoutNoPoll(s) ==
    IF s.pollPending = 0
    THEN [s EXCEPT !.timeoutArmed = FALSE, !.exc = "TypeError"]
    ELSE [abortPoll(s) EXCEPT !.timeoutArmed = FALSE, !.pollPending = 0]

onTimeout(s) ==
    IF s.pollPending = 0
    THEN [s EXCEPT !.timeoutArmed = FALSE, !.exc = "TypeError"]
    ELSE poll([abortPoll(s) EXCEPT !.timeoutArmed = FALSE, !.pollPending = 0])

\* (mutant) the .then callbacks of invoke do not look at destroyed
continuationLate(s, c) ==
    LET req == s.reqs[c.rid + 1]
    IN  IF req.action = "create"
        THEN IF c.rejected
             THEN [s EXCEPT !.reqs[c.rid + 1] = settle(@, "rejected", c.val)]
             ELSE registerRemoteObject(s, c.rid, c.val)
        ELSE IF req.action = "invoke"
        THEN [s EXCEPT !.proxies[req.p].deferredResults = @ \ {req.k},
                       !.reqs[c.rid + 1] =
                           settle(@, IF c.rejected THEN "rejected" ELSE "resolved", c.val)]
        ELSE s

\* the .then callbacks of create and of invoke, run with a settled deferred
continuation(s, c) ==
    LET req == s.reqs[c.rid + 1]
    IN  IF req.action = "create"
        THEN IF c.rejected
             THEN [s EXCEPT !.reqs[c.rid + 1] = settle(@, "rejected", c.val)]
             ELSE registerRemoteObject(s, c.rid, c.val)
        ELSE IF req.action = "invoke"
        THEN IF s.proxies[req.p].cDestroyed THEN s
             ELSE [s EXCEPT !.proxies[req.p].deferredResults = @ \ {req.k},
                            !.reqs[c.rid + 1] =
                                settle(@, IF c.rejected THEN "rejected" ELSE "resolved", c.val)]
        ELSE s

\* (mutant) create() does not look at connected
createAnyway(s) ==
    sendRequest(s, [action |-> "create", p |-> 0, k |-> 0,
                    st |-> "pending", val |-> 0, n |-> 0])

\* Connection.create
create(s) ==
    IF ~s.connected
    THEN [s EXCEPT !.exc = "already disconnected"]
    ELSE sendRequest(s, [action |-> "create", p |-> 0, k |-> 0,
                         st |-> "pending", val |-> 0, n |-> 0])

\* ------------------------------------------------------------- the server
PostedReqs ==
    {r \in 0..(nextRequestID - 1) :
        \E i \in 1..Len(posts) : \E j \in 1..Len(posts[i]) : posts[i][j] = r}

Answered ==
    {srvMsgs[i].rid : i \in {j \in 1..Len(srvMsgs) : srvMsgs[j].t = "res"}}

Created ==
    {srvMsgs[i].val : i \in {j \in 1..Len(srvMsgs) :
        /\ srvMsgs[j].t = "res"
        /\ srvMsgs[j].err = 0
        /\ reqs[srvMsgs[j].rid + 1].action = "create"}}

\* what the server may say next: the result of a request it was sent and has
\* not answered (a create gets the next unused instance id, an invoke its
\* result or its error), or an event of an instance it created
ServerBodies ==
    UNION {
        LET act == reqs[r + 1].action
        IN  IF act = "create"
            THEN {[t |-> "res", rid |-> r, err |-> 0, val |-> Cardinality(Created) + 1]}
            ELSE IF act = "invoke"
            THEN {[t |-> "res", rid |-> r, err |-> 0, val |-> ResultOf(r)],
                  [t |-> "res", rid |-> r, err |-> ErrorOf(r), val |-> 0]}
            ELSE {[t |-> "res", rid |-> r, err |-> 0, val |-> 0]}
        : r \in PostedReqs \ Answered}
    \cup {[t |-> "ev", rid |-> -1, err |-> 0, val |-> i] : i \in Created}

\* the poll responses the server may send: any messages it produced, in any
\* order, repeated or not
Responses ==
    UNION {[1..k -> 0..(Len(srvMsgs) - 1)] : k \in 0..MaxResp}

\* ------------------------------------------------- what the application does
\* The listeners of the application are inputs of the handlers that fire
\* events.  A choice is offered only where a listener of that kind can run.
HasInstance ==
    \E i \in InstanceIDs : instances[i] # 0

\* does a 'loss' or 'destroy' listener call a method of its object?
LisChoices ==
    IF connected /\ HasInstance THEN BOOLEAN ELSE {FALSE}

\* does the listener of a server event call disconnect()?
EvlChoices(resp) ==
    IF \E i \in 1..Len(resp) : srvMsgs[resp[i] + 1].t = "ev" THEN BOOLEAN ELSE {FALSE}

\* a response matters only to the handler of the current poll of a running Poller
ResponsesTo(g) ==
    IF g.id = curPollID /\ ~stopped THEN Responses ELSE {<<>>}

\* ------------------------------------------------------------------ actions
\* A call of the application that throws changes nothing: the error goes to
\* the caller, and the step is a stuttering one.
Create ==
    \E s \in {create(Cur)} : Commit([s EXCEPT !.exc = ""])

InvokeOf(p) ==
    LET s == invoke(Cur, p) IN Commit([s EXCEPT !.exc = ""])

Invoke ==
    \E p \in 1..Len(proxies) : InvokeOf(p)

DestroyOf(p, lis) ==
    LET s == roDestroy(Cur, p, lis) IN Commit([s EXCEPT !.exc = ""])

Destroy ==
    \E p \in 1..Len(proxies) :
    \E lis \in (IF proxies[p].rDestroyed THEN {FALSE} ELSE BOOLEAN) : DestroyOf(p, lis)

DisconnectOf(lis) ==
    LET s == disconnect(Cur, lis) IN Commit([s EXCEPT !.exc = ""])

Disconnect ==
    \E lis \in LisChoices : DisconnectOf(lis)

SendOKOf(h) ==
    Commit(Uncaught(sendSuccess([Cur EXCEPT !.sendReqs = Complete(@, h)])))

SendOK ==
    \E h \in sendReqs : SendOKOf(h)

SendFailOf(h, error, lis) ==
    Commit(Uncaught(sendFailure([Cur EXCEPT !.sendReqs = Complete(@, h)], error, lis)))

SendFail ==
    \E h \in sendReqs, error \in TransportErrors, lis \in LisChoices : SendFailOf(h, error, lis)

PollOKOf(g, resp, evl, lis) ==
    Commit(Uncaught(pollSuccess([Cur EXCEPT !.pollReqs = Complete(@, g)], g.id, resp, evl, lis)))

PollOK ==
    \E g \in pollReqs :
    \E resp \in ResponsesTo(g) :
    \E evl \in EvlChoices(resp), lis \in LisChoices : PollOKOf(g, resp, evl, lis)

PollFailOf(g, error, lis) ==
    Commit(Uncaught(pollFailure([Cur EXCEPT !.pollReqs = Complete(@, g)], g.id, error, lis)))

PollFail ==
    \E g \in pollReqs, error \in TransportErrors, lis \in LisChoices : PollFailOf(g, error, lis)

Timeout ==
    /\ timeoutArmed
    /\ Commit(Uncaught(onTimeout(Cur)))

ContinuationOf(c) ==
    Commit(Uncaught(continuation([Cur EXCEPT !.conts = @ \ {c}], c)))

Continuation ==
    \E c \in conts : ContinuationOf(c)

ServerEmit ==
    \E b \in ServerBodies :
        /\ b.t = "res" /\ reqs[b.rid + 1].action = "create" => Cardinality(Created) < MaxInstances
        /\ Commit([Cur EXCEPT !.srvMsgs = Append(@, b)])

\* the Connection as its constructor leaves it: connected, nothing queued,
\* and the Poller's first poll() issued
Init ==
    /\ connected = TRUE
    /\ nextRequestID = 0
    /\ requestQueue = <<>>
    /\ rqDeferred = {}
    /\ reqs = <<>>
    /\ conts = {}
    /\ pendingRequest = 0
    /\ sendReqs = {}
    /\ instances = [i \in InstanceIDs |-> 0]
    /\ proxies = <<>>
    /\ evLog = <<>>
    /\ thrown = {}
    /\ posts = <<>>
    /\ gets = <<-1>>
    /\ deletes = 0
    /\ stopped = FALSE
    /\ curPollID = 1
    /\ latestID = -1
    /\ pollPending = 1
    /\ timeoutArmed = TRUE
    /\ pollReqs = {[id |-> 1, aborted |-> FALSE]}
    /\ srvMsgs = <<>>
    /\ delivered = <<>>

Next ==
    \/ Create
    \/ Invoke
    \/ Destroy
    \/ Disconnect
    \/ SendOK
    \/ SendFail
    \/ PollOK
    \/ PollFail
    \/ Timeout
    \/ Continuation
    \/ ServerEmit

Spec == Init /\ [][Next]_vars

\* The send pipeline with a Poller that issues at most MaxLivePolls GETs.  The
\* transport settles every request it was handed: a POST in flight is
\* eventually completed or failed.
LivePollOK ==
    PollOK /\ curPollID' <= MaxLivePolls

LiveTimeout ==
    Timeout /\ curPollID' <= MaxLivePolls

LiveNext ==
    \/ Create
    \/ Invoke
    \/ Destroy
    \/ Disconnect
    \/ SendOK
    \/ SendFail
    \/ LivePollOK
    \/ PollFail
    \/ LiveTimeout
    \/ Continuation
    \/ ServerEmit

LiveSpec == Init /\ [][LiveNext]_vars /\ WF_vars(SendOK \/ SendFail)

\* The same handlers with a server that may also refuse a create: it answers
\* it with an error.  The Poller is limited to MaxLivePolls GETs.
ServerRefuse ==
    \E r \in PostedReqs \ Answered :
        /\ reqs[r + 1].action = "create"
        /\ Commit([Cur EXCEPT !.srvMsgs =
                        Append(@, [t |-> "res", rid |-> r, err |-> ErrorOf(r), val |-> 0])])

RefuseNext ==
    \/ Create
    \/ Invoke
    \/ Destroy
    \/ Disconnect
    \/ SendOK
    \/ SendFail
    \/ LivePollOK
    \/ PollFail
    \/ LiveTimeout
    \/ Continuation
    \/ ServerEmit
    \/ ServerRefuse

RefuseSpec == Init /\ [][RefuseNext]_vars

\* ================================================================== claims
\* the message, if any, with which the server answered request r
AnswerTo(r) ==
    {j \in 1..Len(srvMsgs) : srvMsgs[j].t = "res" /\ srvMsgs[j].rid = r}

\* request r's result has been handled and its .then callbacks have run
Processed(r) ==
    /\ r \notin rqDeferred
    /\ \A c \in conts : c.rid # r

\* the future of the request at place i was settled by a result, not by onDestroy
SettledByResult(i) ==
    /\ reqs[i].action = "invoke"
    /\ reqs[i].st # "pending"
    /\ reqs[i].val # RemoteObjectDestroyed

\* C1: every invocation future that a result settled holds exactly the payload
\* of the server's message for its own request id (resolved with its result,
\* or rejected with its error), whatever the order the results came in; and
\* once that message has been processed on a live object the future is settled.
C1_OwnResult ==
    \A i \in 1..Len(reqs) :
        /\ SettledByResult(i) =>
            \E j \in AnswerTo(i - 1) :
                IF srvMsgs[j].err = 0
                THEN reqs[i].st = "resolved" /\ reqs[i].val = srvMsgs[j].val
                ELSE reqs[i].st = "rejected" /\ reqs[i].val = srvMsgs[j].err
        /\ (/\ reqs[i].action = "invoke"
            /\ Processed(i - 1)
            /\ ~proxies[reqs[i].p].cDestroyed) => reqs[i].st # "pending"

\* two invocations settled by results that the server sent in the reverse
\* order of the requests (so neither result was out before both were sent)
C1_Witness ==
    \E i, k \in 1..Len(reqs) :
        /\ i < k
        /\ SettledByResult(i)
        /\ SettledByResult(k)
        /\ \E a \in AnswerTo(i - 1), b \in AnswerTo(k - 1) : b < a

\* C2: a message id is passed to onPoll at most once
C2_DeliveredOnce ==
    \A i, j \in 1..Len(delivered) : i < j => delivered[i] # delivered[j]

\* C3: the ids passed to onPoll are strictly increasing
C3_StrictlyIncreasing ==
    \A i \in 1..(Len(delivered) - 1) : delivered[i] < delivered[i + 1]

\* C4: a step that takes the Connection from connected to disconnected leaves
\* every object that was registered destroyed, and every invocation future
\* that was pending on it rejected with 'remote object destroyed'.
C4_TeardownLosesAll ==
    [][(connected /\ ~connected') =>
        \A i \in InstanceIDs : instances[i] # 0 =>
            LET p == instances[i]
            IN  /\ proxies'[p].rDestroyed
                /\ proxies'[p].cDestroyed
                /\ \A r \in 1..Len(reqs) :
                    (/\ reqs[r].action = "invoke"
                     /\ reqs[r].p = p
                     /\ reqs[r].st = "pending") =>
                        /\ reqs'[r].st = "rejected"
                        /\ reqs'[r].val = RemoteObjectDestroyed]_vars

\* a disconnected Connection whose object was lost (never destroyed by the
\* application) while an invocation was pending on it
C4_Witness ==
    /\ ~connected
    /\ \E r \in 1..Len(reqs) :
        /\ reqs[r].action = "invoke"
        /\ reqs[r].st = "rejected"
        /\ reqs[r].val = RemoteObjectDestroyed
        /\ proxies[reqs[r].p].events = <<"loss", "destroy">>

\* the requests a step adds to the RequestQueue
Added ==
    {reqs'[i] : i \in (Len(reqs) + 1)..Len(reqs')}

\* C5: a 'destroy' request is enqueued only by a destroy() call of the
\* application: a teardown enqueues none.
C5_DestroyOnlyByApplication ==
    [][(\E q \in Added : q.action = "destroy") => Destroy]_vars

\* C6: on a disconnected Connection disconnect() throws 'already
\* disconnected' and changes nothing: no event, no callback of an object, no
\* stop of the Poller, no DELETE.
C6_SecondDisconnectThrows ==
    ~connected =>
        \A lis \in BOOLEAN :
            disconnect(Cur, lis) = [Cur EXCEPT !.exc = "already disconnected"]

\* a Connection that disconnect() has torn down: the state a second call meets
C6_Witness ==
    /\ ~connected
    /\ evLog = <<[e |-> "disconnect", err |-> 0]>>
    /\ deletes = 1
    /\ stopped
    /\ disconnect(Cur, FALSE).exc = "already disconnected"

\* C7: on a disconnected Connection a reported loss fires no event and throws
\* nothing out of the handler that reports it.
C7_ReentrantTeardown ==
    [][~connected => (evLog' = evLog /\ thrown' = thrown)]_vars

\* C8: the failure of the current poll GET of a running Poller fires 'loss'
\* with the error and then 'disconnect', leaves the Poller stopped, and a
\* stopped Poller stays stopped and issues no GET.
C8_PollFailureIsLoss ==
    [][/\ \A g \in pollReqs, error \in TransportErrors, lis \in BOOLEAN :
            (g.id = curPollID /\ ~stopped /\ PollFailOf(g, error, lis)) =>
                /\ evLog' = evLog \o <<[e |-> "loss", err |-> error],
                                       [e |-> "disconnect", err |-> 0]>>
                /\ stopped'
                /\ pollPending' = 0
       /\ stopped => (stopped' /\ gets' = gets)]_vars

\* the Poller's GET failed before any POST was issued: loss, then disconnect
C8_Witness ==
    /\ evLog = <<[e |-> "loss", err |-> 30], [e |-> "disconnect", err |-> 0]>>
    /\ posts = <<>>
    /\ stopped
    /\ \A g \in pollReqs : g.id # curPollID

\* everything but the Poller's in-flight requests
AllButPollReqs ==
    <<connected, nextRequestID, requestQueue, rqDeferred, reqs, conts,
      pendingRequest, sendReqs, instances, proxies, evLog, thrown, posts, gets,
      deletes, stopped, curPollID, latestID, pollPending, timeoutArmed,
      srvMsgs, delivered>>

\* C9: the watchdog aborts the outstanding GET and issues exactly one new GET
\* with the same last-seen id; the response or the failure of a GET that is
\* not the current one is discarded: it changes nothing of the Poller or the
\* Connection (no delivery, no last-seen id, no GET, no loss).
C9_TimeoutReissues ==
    [][/\ Timeout =>
            /\ [id |-> pollPending, aborted |-> TRUE] \in pollReqs'
            /\ gets' = Append(gets, latestID)
            /\ latestID' = latestID
            /\ curPollID' = curPollID + 1
            /\ pollPending' = curPollID'
            /\ delivered' = delivered
            /\ evLog' = evLog
       /\ \A g \in pollReqs : g.id # curPollID =>
            \A resp \in ResponsesTo(g), error \in TransportErrors, evl \in BOOLEAN, lis \in BOOLEAN :
                (PollOKOf(g, resp, evl, lis) \/ PollFailOf(g, error, lis)) =>
                    /\ pollReqs' = pollReqs \ {g}
                    /\ UNCHANGED AllButPollReqs]_vars

\* after a delivery the watchdog expired: the aborted GET is still in flight
\* beside the reissued one, which carries the same last-seen id
C9_Witness ==
    /\ ~stopped
    /\ latestID >= 0
    /\ \E g \in pollReqs :
        /\ g.aborted
        /\ g.id = curPollID - 1
        /\ gets[curPollID] = latestID
        /\ gets[g.id] = latestID
    /\ [id |-> curPollID, aborted |-> FALSE] \in pollReqs

\* C10: the failure of a POST on a connected Connection fires 'loss' with the
\* error, then tears the Connection down; and a POST never holds a request
\* that an earlier POST held.
C10_SendFailureIsLoss ==
    [][/\ \A h \in sendReqs, error \in TransportErrors, lis \in BOOLEAN :
            (connected /\ SendFailOf(h, error, lis)) =>
                /\ evLog' = evLog \o <<[e |-> "loss", err |-> error],
                                       [e |-> "disconnect", err |-> 0]>>
                /\ ~connected'
                /\ stopped'
                /\ deletes' = deletes + 1
       /\ \A i \in (Len(posts) + 1)..Len(posts'), j \in 1..Len(posts) :
            \A a \in 1..Len(posts'[i]), b \in 1..Len(posts[j]) : posts'[i][a] # posts[j][b]]_vars

\* a POST failed while the poll GET was outstanding: loss, then disconnect,
\* and the GET that the teardown aborted is still in flight
C10_Witness ==
    /\ evLog = <<[e |-> "loss", err |-> 30], [e |-> "disconnect", err |-> 0]>>
    /\ posts # <<>>
    /\ [id |-> curPollID, aborted |-> TRUE] \in pollReqs

\* C11: at most one POST is outstanding, it is the one pendingRequest holds,
\* and while it is outstanding a flush issues nothing and leaves the queue
\* as it is.
C11_OneBatchOutstanding ==
    /\ Cardinality(sendReqs) <= 1
    /\ \A h \in sendReqs : pendingRequest = h.id
    /\ sendReqs # {} => sendQueuedRequests(Cur) = Cur

\* a POST is outstanding (not aborted) and requests wait in the queue behind it
C11_Witness ==
    /\ \E h \in sendReqs : ~h.aborted
    /\ Len(requestQueue) >= 2
    /\ connected

\* the concatenation of the bodies of POSTs
RECURSIVE Flatten(_)
Flatten(ps) ==
    IF ps = <<>> THEN <<>> ELSE Head(ps) \o Flatten(Tail(ps))

\* C12: the ids handed out are 0, 1, 2, ... in the order of the add() calls;
\* the bodies of the POSTs, in the order issued, followed by the queue, list
\* every id handed out exactly once, in increasing order.
C12_IdsInOrder ==
    /\ Len(reqs) = nextRequestID
    /\ Flatten(posts) \o requestQueue = [i \in 1..nextRequestID |-> i - 1]

\* two requests added while the first POST was in flight went out together
\* in the second POST
C12_Witness ==
    /\ Len(posts) = 2
    /\ posts[1] = <<0>>
    /\ posts[2] = <<1, 2>>

\* C13: a method of an object marked destroyed (by destroy() or by onLoss)
\* throws, records no invocation future and enqueues nothing; so does one
\* called by a 'loss' or 'destroy' listener of that object.
C13_DestroyedRejectsInvoke ==
    \A p \in 1..Len(proxies) :
        /\ proxies[p].rDestroyed =>
            invoke(Cur, p) = [Cur EXCEPT !.exc = "remote object already destroyed"]
        /\ \A o \in proxies[p].lisOut : ~o.ok

\* the invocation futures pending on object p
PendingOn(p) ==
    {i \in 1..Len(reqs) :
        reqs[i].action = "invoke" /\ reqs[i].p = p /\ reqs[i].st = "pending"}

\* C14: resolve or reject is called at most once on an invocation future; a
\* step that destroys an object (destroy() or loss) rejects every future
\* pending on it with 'remote object destroyed'; and no later step, the
\* arrival of its result or error included, touches a settled future.
C14_SettledOnce ==
    /\ [](\A i \in 1..Len(reqs) : reqs[i].action = "invoke" => reqs[i].n <= 1)
    /\ [][/\ \A p \in 1..Len(proxies) :
                (~proxies[p].cDestroyed /\ proxies'[p].cDestroyed) =>
                    \A i \in PendingOn(p) :
                        reqs'[i].st = "rejected" /\ reqs'[i].val = RemoteObjectDestroyed
          /\ \A i \in 1..Len(reqs) :
                (reqs[i].action = "invoke" /\ reqs[i].st # "pending") =>
                    reqs'[i] = reqs[i]]_vars

\* an invocation rejected by the destruction of its object, whose result the
\* server sent and the client has since handled and discarded
C14_Witness ==
    \E i \in 1..Len(reqs) :
        /\ reqs[i].action = "invoke"
        /\ reqs[i].st = "rejected"
        /\ reqs[i].val = RemoteObjectDestroyed
        /\ reqs[i].n = 1
        /\ AnswerTo(i - 1) # {}
        /\ Processed(i - 1)

\* C15: destroy() on an object not yet destroyed marks it destroyed, rejects
\* the futures pending on it with 'remote object destroyed', adds exactly one
\* request, a 'destroy' for that object, and fires 'destroy' once; on a
\* destroyed object it throws 'already destroyed' and changes nothing.
C15_DestroyOnce ==
    /\ [](\A p \in 1..Len(proxies), lis \in BOOLEAN :
            proxies[p].rDestroyed =>
                roDestroy(Cur, p, lis) = [Cur EXCEPT !.exc = "already destroyed"])
    /\ [][\A p \in 1..Len(proxies), lis \in BOOLEAN :
            (~proxies[p].rDestroyed /\ DestroyOf(p, lis)) =>
                /\ proxies'[p].rDestroyed
                /\ proxies'[p].cDestroyed
                /\ \A i \in PendingOn(p) :
                    reqs'[i].st = "rejected" /\ reqs'[i].val = RemoteObjectDestroyed
                /\ Len(reqs') = Len(reqs) + 1
                /\ reqs'[Len(reqs')].action = "destroy"
                /\ reqs'[Len(reqs')].p = p
                /\ proxies'[p].events = Append(proxies[p].events, "destroy")]_vars

\* an object the application destroyed while an invocation was pending on
\* it: one 'destroy' event, one 'destroy' request, and destroy() now throws
C15_Witness ==
    \E p \in 1..Len(proxies) :
        /\ proxies[p].events = <<"destroy">>
        /\ \E i \in 1..Len(reqs) :
            /\ reqs[i].action = "invoke"
            /\ reqs[i].p = p
            /\ reqs[i].val = RemoteObjectDestroyed
        /\ Cardinality({i \in 1..Len(reqs) : reqs[i].action = "destroy" /\ reqs[i].p = p}) = 1
        /\ roDestroy(Cur, p, FALSE).exc = "already destroyed"

\* C16: an object the application destroyed is no longer in the Connection's
\* table of instances, and no event of the server reaches it after its
\* 'destroy'.
C16_DestroyedUnregistered ==
    \A p \in 1..Len(proxies) :
        /\ proxies[p].rDestroyed => instances[proxies[p].iid] # p
        /\ \A i, j \in 1..Len(proxies[p].events) :
            (i < j /\ proxies[p].events[i] = "destroy") => proxies[p].events[j] # "event"

\* C17: on a disconnected Connection create() throws 'already disconnected'
\* and changes nothing: no id is handed out, nothing is queued, no POST.
C17_CreateWhenDisconnected ==
    ~connected => create(Cur) = [Cur EXCEPT !.exc = "already disconnected"]

\* a disconnected Connection with no POST in flight and ids still to hand
\* out: create() would go straight to a POST if it did not throw
C17_Witness ==
    /\ ~connected
    /\ pendingRequest = 0
    /\ nextRequestID < MaxRequests
    /\ create(Cur).exc = "already disconnected"

\* request r waits in the RequestQueue
Queued(r) ==
    \E i \in 1..Len(requestQueue) : requestQueue[i] = r

\* C18: while the Connection stays connected, a request that waits in the
\* queue (behind the POST in flight) is eventually part of a POST.
C18_QueuedIsSent ==
    \A r \in 0..(MaxRequests - 1) :
        (connected /\ Queued(r)) ~> (r \in PostedReqs \/ ~connected)

\* on a connected Connection every POST is complete, the queue is empty, and
\* a later POST carried two requests, which had waited behind an earlier one
C18_Witness ==
    /\ connected
    /\ sendReqs = {}
    /\ requestQueue = <<>>
    /\ \E k \in 2..Len(posts) : Len(posts[k]) >= 2

\* the poll GETs in flight that were not aborted
LiveGets ==
    {g \in pollReqs : ~g.aborted}

\* C19: between handlers, a Poller that was not stopped (by disconnect() or
\* by the loss it reported) has exactly one poll GET in flight that was not
\* aborted: the one of the current poll, which pendingRequest holds, with
\* its watchdog armed.
C19_OnePollOutstanding ==
    ~stopped =>
        /\ LiveGets = {[id |-> curPollID, aborted |-> FALSE]}
        /\ pollPending = curPollID
        /\ timeoutArmed

\* a running Poller after a delivery and a watchdog expiry: the GET the
\* watchdog aborted is still in flight beside the one current GET
C19_Witness ==
    /\ ~stopped
    /\ delivered # <<>>
    /\ Cardinality(pollReqs) = 2
    /\ Cardinality(LiveGets) = 1

\* C20: a step that leaves the Poller stopped issues no GET (so a handler
\* that stopped it and then came back to poll() issues none), and once the
\* Poller is stopped it stays stopped, nothing is passed to onPoll, and the
\* response or the failure of a poll GET changes nothing: no onPoll, no
\* onLoss.
C20_StoppedStaysQuiet ==
    /\ [](stopped =>
            \A g \in pollReqs, lis \in BOOLEAN :
                /\ \A resp \in Responses, evl \in BOOLEAN :
                    pollSuccess(Cur, g.id, resp, evl, lis) = Cur
                /\ \A error \in TransportErrors :
                    pollFailure(Cur, g.id, error, lis) = Cur)
    /\ [][/\ stopped' => gets' = gets
          /\ stopped => (stopped' /\ delivered' = delivered)]_vars

\* the Poller was stopped by a disconnect() that a listener called inside
\* onPoll: the response of the current poll moved the last-seen id, and the
\* handler, back from onPoll, issued no GET with it
C20_Witness ==
    /\ stopped
    /\ evLog = <<[e |-> "disconnect", err |-> 0]>>
    /\ latestID > gets[curPollID]
    /\ Len(gets) = curPollID

\* the greatest of a non-empty set of ids
MaxOf(S) ==
    CHOOSE x \in S : \A y \in S : y <= x

\* the ids a step passes to onPoll
NewlyDelivered ==
    {delivered'[i] : i \in (Len(delivered) + 1)..Len(delivered')}

\* C21: a step leaves the last-seen id at the greatest of its former value
\* and the ids of the new messages of the response it handled; so the
\* last-seen id never decreases.
C21_LatestIsMax ==
    [][/\ latestID' = MaxOf({latestID} \cup NewlyDelivered)
       /\ latestID' >= latestID]_vars

\* the result messages handleResult may be handed: for every id, assigned or
\* not, a result and an error
ResultMessages ==
    UNION {{[t |-> "res", rid |-> r, err |-> 0, val |-> ResultOf(r)],
            [t |-> "res", rid |-> r, err |-> 0, val |-> 1],
            [t |-> "res", rid |-> r, err |-> ErrorOf(r), val |-> 0]} : r \in 0..MaxRequests}

\* C22: handleResult for an id no deferred waits for changes nothing; a
\* deferred of the RequestQueue is settled only while it waits and does not
\* wait afterwards, so it is settled at most once.
C22_AbsentIgnored ==
    /\ [](\A m \in ResultMessages :
            m.rid \notin rqDeferred => handleResult(Cur, m) = Cur)
    /\ [][\A c \in conts' \ conts :
            c.rid \in rqDeferred /\ c.rid \notin rqDeferred']_vars

\* the result of a request was passed to onPoll twice: the request was
\* settled by the first and the second found no deferred
C22_Witness ==
    \E i, j \in 1..Len(delivered) :
        /\ i < j
        /\ delivered[i] = delivered[j]
        /\ srvMsgs[delivered[i] + 1].t = "res"
        /\ Processed(srvMsgs[delivered[i] + 1].rid)

\* a create whose deferred waits in the RequestQueue
WaitingCreates ==
    {i \in 1..Len(reqs) : reqs[i].action = "create" /\ (i - 1) \in rqDeferred}

\* C23 (as stated): a create whose deferred waits in the RequestQueue when
\* the Connection is torn down, or at any time after, is not settled by that
\* step nor by any later one: the deferred keeps waiting and the future the
\* caller holds stays pending.
C23_PendingCreateStaysPending ==
    [][\A i \in WaitingCreates :
        ~connected' => ((i - 1) \in rqDeferred' /\ reqs'[i].st = "pending")]_vars

\* C23 (amended): the teardown itself settles no create that waits in the
\* RequestQueue, and no step on a disconnected Connection settles one; in the
\* step that tears the Connection down the deferred of such a create is
\* settled only by its own result, passed to onPoll in that same step (a
\* listener called disconnect() while the response was being handled), and
\* the future the caller holds is still pending when the step ends.
C23_SettledOnlyByItsResult ==
    [][\A i \in WaitingCreates :
        ~connected' =>
            /\ reqs'[i].st = "pending"
            /\ \/ (i - 1) \in rqDeferred'
               \/ /\ connected
                  /\ \E k \in NewlyDelivered :
                        srvMsgs[k + 1].t = "res" /\ srvMsgs[k + 1].rid = i - 1
                  /\ \E c \in conts' : c.rid = i - 1]_vars

\* a torn-down Connection on which a create still waits, although the server
\* answered it: its future is pending
C23_Witness ==
    /\ ~connected
    /\ \E i \in WaitingCreates :
        /\ reqs[i].st = "pending"
        /\ AnswerTo(i - 1) # {}

\* the places of 'ev' in the events fired on object p
EventsAt(p, ev) ==
    {i \in 1..Len(proxies[p].events) : proxies[p].events[i] = ev}

\* the 'destroy' requests added for object p
DestroyRequests(p) ==
    {i \in 1..Len(reqs) : reqs[i].action = "destroy" /\ reqs[i].p = p}

\* C24: 'destroy' is fired at most once on an object, 'loss' is never fired
\* on it after its 'destroy', and at most one 'destroy' request is added for
\* it.
C24_DestroyedIsTerminal ==
    \A p \in 1..Len(proxies) :
        /\ Cardinality(EventsAt(p, "destroy")) <= 1
        /\ \A i \in EventsAt(p, "destroy"), j \in EventsAt(p, "loss") : j < i
        /\ Cardinality(DestroyRequests(p)) <= 1

\* C25: a disconnected Connection has no instance in its table and no
\* object that is not destroyed.
C25_DisconnectedHasNoLiveObject ==
    ~connected =>
        /\ \A i \in InstanceIDs : instances[i] = 0
        /\ \A p \in 1..Len(proxies) : proxies[p].rDestroyed /\ proxies[p].cDestroyed

\* C26: at most one DELETE is issued, and once it has been issued no POST
\* and no poll GET is issued.
C26_DeleteIsLast ==
    [][/\ deletes' <= 1
       /\ deletes >= 1 => (posts' = posts /\ gets' = gets)]_vars

====
